---- MODULE Spec2Model ----
(***************************************************************************)
(* State-machine model of the farcaster-node service handlers:             *)
(*   - walletd::runtime::Runtime   (token-gated key custody)               *)
(*   - syncerd::runtime::Runtime   (task set, Synclet channel, bridge)     *)
(* Each action is one iteration of the ESB controller loop: one message is *)
(* handed to Handler::handle, and an Err result is logged and passed to    *)
(* handle_err, which swallows it.                                          *)
(***************************************************************************)
EXTENDS Integers, Sequences, FiniteSets, Bags, TLC

\* ------------------------------------------------------------------ bounds
MaxCounter == 3
MaxRuns == 2
MaxSubmit == 3
MaxBridge == 1
MaxBurst == 2
MaxProgress == 2
MaxBody == 2

\* --------------------------------------------------------------- universe
\* ServiceBus lanes matched in Handler::handle.
ServiceBus == {"Ctl", "Info", "Sync", "Bridge"}

\* ServiceId values that appear as message sources.
Sources == {"Farcasterd", "Swap42"}

\* Runtime tokens as produced by farcasterd's main: 16 bytes rendered in hex.
RuntimeToken == "00000000000000000000000000000001"
Tokens == {RuntimeToken, "00000000000000000000000000000002"}

PublicOffers == {"offer_a"}

\* Task values submitted on the Sync lane (task, caller-assigned id).
Tasks ==
    { [kind |-> "WatchHeight", id |-> 1],
      [kind |-> "Abort", id |-> 2, task_id |-> 1] }

\* BusMsg values: a family (Ctl / Info / Sync) and a variant with its payload.
CtlMsgs ==
    { [family |-> "Ctl", variant |-> "Hello"],
      [family |-> "Ctl", variant |-> "Terminate"] }
    \cup { [family |-> "Ctl", variant |-> "CreateSwapKeys", public_offer |-> o, token |-> t] :
             o \in PublicOffers, t \in Tokens }
    \cup { [family |-> "Ctl", variant |-> "GetKeys", token |-> t] : t \in Tokens }
    \cup { [family |-> "Ctl", variant |-> "Progress", info |-> "p"] }

InfoMsgs ==
    { [family |-> "Info", variant |-> "GetInfo"],
      [family |-> "Info", variant |-> "ListTasks"],
      [family |-> "Info", variant |-> "ListPeers"] }

SyncMsgs ==
    { [family |-> "Sync", variant |-> "Task", task |-> t] : t \in Tasks }
    \cup { [family |-> "Sync", variant |-> "Event",
             event |-> [kind |-> "HeightChanged", id |-> 1]],
           [family |-> "Sync", variant |-> "BridgeEvent",
             event |-> [kind |-> "HeightChanged", id |-> 1], source |-> "Swap42"] }

BusMsgs == CtlMsgs \cup InfoMsgs \cup SyncMsgs

\* Messages and sources tried on walletd: every Ctl variant, and one message
\* of each other family.
WalletMsgs ==
    CtlMsgs \cup { [family |-> "Info", variant |-> "GetInfo"],
                   [family |-> "Sync", variant |-> "Task",
                    task |-> [kind |-> "WatchHeight", id |-> 1]] }

WalletSources == {"Farcasterd", "Swap42"}

\* Messages tried on syncerd: the Ctl variants it knows and one it does not,
\* and every Info and Sync message.
SyncerMsgs ==
    {m \in CtlMsgs : m.variant \in {"Hello", "Terminate", "Progress"}}
        \cup InfoMsgs \cup SyncMsgs

\* Display strings of the request variants (#[display(...)] attributes).
RequestDisplay ==
    [ Hello |-> "hello()",
      GetInfo |-> "get_info()",
      ListPeers |-> "list_peers()",
      Progress |-> "progress(p)" ]

\* Display of the variants declared in bus::ctl, bus::info and bus::sync:
\* snake-case variant name with elided arguments.
BusDisplay ==
    [ Terminate |-> "terminate()",
      CreateSwapKeys |-> "create_swap_keys(..)",
      GetKeys |-> "get_keys(..)",
      ListTasks |-> "list_tasks()",
      Task |-> "syncer_task(..)",
      Event |-> "syncer_event(..)",
      BridgeEvent |-> "syncer_bridge_event(..)" ]

to_string(request) ==
    IF request.variant \in DOMAIN RequestDisplay
    THEN RequestDisplay[request.variant]
    ELSE BusDisplay[request.variant]

\* Results of Handler::handle.
Ok == <<"Ok">>
NotSupported(bus, text) == <<"NotSupported", bus, text>>
InvalidToken == <<"InvalidToken">>
CryptoError == <<"Crypto">>
TransportError == <<"Transport">>

\* One message handed to endpoints.send_to.
BusSend(bus, src, dst, msg) == [bus |-> bus, src |-> src, dst |-> dst, msg |-> msg]

VARIABLES
    token,          \* farcasterd: the runtime token generated in main
    wallet_up,      \* walletd process is running its loop
    wallet_token,   \* walletd Runtime.wallet_token
    node_secrets,   \* walletd Runtime.node_secrets
    wallet_dat,     \* wallet_counter as stored in <data-dir>/wallet.dat
    wallet_last,    \* the message walletd has just handled: input, state before, outcome
    wallet_runs,    \* history: how many times walletd has been started
    csk_log,        \* history: the two latest CreateSwapKeys that passed the token check
    handed_out,     \* history: index -> number of SwapKeys replies sent carrying it
    syncer_up,      \* syncerd process is running its loop
    tasks,          \* syncerd Runtime.tasks (HashSet<SyncerdTask>), as element -> copies
    tx,             \* tasks in the mpsc channel from the Runtime to the Synclet
    rx_alive,       \* the Synclet still holds the channel's Receiver
    synclet_tasks,  \* tasks the Synclet has taken from the channel
    bridge,         \* bridge events written by the Synclet, not yet handled
    syncer_last,    \* the message syncerd has just handled: input, state before, outcome
    submitted,      \* history: how many times each (task, source) was handled on Sync
    test_pc,        \* tests/rpc.rs spawn_swap: the statement the test is at
    procs,          \* the processes alive on the test machine
    spawned,        \* history: the child services farcasterd has spawned
    results,        \* history: whether each CLI command of the test succeeded
    cli,            \* one CLI request being served: steps left, responses written
    checkpoint      \* one CheckpointWallet being stored: value, bytes, value read back

wallet_vars ==
    <<token, wallet_up, wallet_token, node_secrets, wallet_dat, wallet_last,
      wallet_runs, csk_log, handed_out>>

syncer_vars ==
    <<syncer_up, tasks, tx, rx_alive, synclet_tasks, bridge, syncer_last, submitted>>

aux_vars == <<test_pc, procs, spawned, results, cli, checkpoint>>

vars == <<wallet_vars, syncer_vars, aux_vars>>

\* ------------------------------------------------------------------ walletd
\* The walletd state a handler reads and writes, as one record.
WalletState == [wallet_token |-> wallet_token, node_secrets |-> node_secrets,
                wallet_dat |-> wallet_dat]

Outcome(st, result, sent) == [st |-> st, result |-> result, sent |-> sent]

\* NodeSecrets::increment_wallet_counter: advance the counter, store it in
\* wallet.dat, return the new index (here: the new st.node_secrets.wallet_counter).
increment_wallet_counter(st) ==
    LET n == st.node_secrets.wallet_counter + 1
    IN  [st EXCEPT !.node_secrets.wallet_counter = n, !.wallet_dat = n]

\* NodeSecrets::node_id: the public identity of the peer secret key.
node_id(secrets) == <<"node_id", secrets.peerd_secret_key>>

\* KeyManager::new(seed, index)
KeyManager(seed, index) == [seed |-> seed, index |-> index]

\* Mutant: the reply carries counter + 1 but the counter is never advanced.
WalletCreateSwapKeys_NoIncrement(st, request, derive_ok, send_ok) ==
    IF request.token # st.wallet_token
    THEN Outcome(st, InvalidToken, <<>>)
    ELSE LET swap_keys == [family |-> "Ctl", variant |-> "SwapKeys",
                           key_manager |-> KeyManager(st.node_secrets.wallet_seed,
                                                      st.node_secrets.wallet_counter + 1),
                           public_offer |-> request.public_offer]
             send == BusSend("Ctl", "Wallet", "Farcasterd", swap_keys)
                         @@ [delivered |-> send_ok]
         IN  IF ~derive_ok THEN Outcome(st, CryptoError, <<>>)
             ELSE IF ~send_ok THEN Outcome(st, TransportError, <<send>>)
             ELSE Outcome(st, Ok, <<send>>)

\* Mutant: a failed derivation or send gives the index back.
WalletCreateSwapKeys_Rollback(st, request, derive_ok, send_ok) ==
    IF request.token # st.wallet_token
    THEN Outcome(st, InvalidToken, <<>>)
    ELSE LET st1 == increment_wallet_counter(st)
             wallet_index == st1.node_secrets.wallet_counter
             swap_keys == [family |-> "Ctl", variant |-> "SwapKeys",
                           key_manager |-> KeyManager(st1.node_secrets.wallet_seed, wallet_index),
                           public_offer |-> request.public_offer]
             send == BusSend("Ctl", "Wallet", "Farcasterd", swap_keys)
                         @@ [delivered |-> send_ok]
         IN  IF ~derive_ok THEN Outcome(st, CryptoError, <<>>)
             ELSE IF ~send_ok THEN Outcome(st, TransportError, <<send>>)
             ELSE Outcome(st1, Ok, <<send>>)

\* handle_ctl, CtlMsg::CreateSwapKeys arm. derive_ok / send_ok are the outcomes
\* of KeyManager::new(..)? and endpoints.send_to(..)?.
WalletCreateSwapKeys(st, request, derive_ok, send_ok) ==
    IF request.token # st.wallet_token
    THEN Outcome(st, InvalidToken, <<>>)
    ELSE LET st1 == increment_wallet_counter(st)
             wallet_index == st1.node_secrets.wallet_counter
             swap_keys == [family |-> "Ctl", variant |-> "SwapKeys",
                           key_manager |-> KeyManager(st1.node_secrets.wallet_seed, wallet_index),
                           public_offer |-> request.public_offer]
             send == BusSend("Ctl", "Wallet", "Farcasterd", swap_keys)
                         @@ [delivered |-> send_ok]
         IN  IF ~derive_ok THEN Outcome(st1, CryptoError, <<>>)
             ELSE IF ~send_ok THEN Outcome(st1, TransportError, <<send>>)
             ELSE Outcome(st1, Ok, <<send>>)

\* Mutant: the token comparison is missing.
WalletGetKeys_NoGate(st, request, send_ok) ==
    LET keys == [family |-> "Ctl", variant |-> "Keys",
                 peerd_secret_key |-> st.node_secrets.peerd_secret_key,
                 node_id |-> node_id(st.node_secrets)]
        send == BusSend("Ctl", "Wallet", "Farcasterd", keys) @@ [delivered |-> send_ok]
    IN  Outcome(st, IF send_ok THEN Ok ELSE TransportError, <<send>>)

\* Mutant: GetKeys consumes a wallet index as CreateSwapKeys does.
WalletGetKeys_Increment(st, request, send_ok) ==
    IF request.token # st.wallet_token
    THEN Outcome(st, InvalidToken, <<>>)
    ELSE LET st1 == increment_wallet_counter(st)
             keys == [family |-> "Ctl", variant |-> "Keys",
                      peerd_secret_key |-> st.node_secrets.peerd_secret_key,
                      node_id |-> node_id(st.node_secrets)]
             send == BusSend("Ctl", "Wallet", "Farcasterd", keys)
                         @@ [delivered |-> send_ok]
         IN  Outcome(st1, IF send_ok THEN Ok ELSE TransportError, <<send>>)

\* handle_ctl, CtlMsg::GetKeys arm.
WalletGetKeys(st, request, send_ok) ==
    IF request.token # st.wallet_token
    THEN Outcome(st, InvalidToken, <<>>)
    ELSE LET keys == [family |-> "Ctl", variant |-> "Keys",
                      peerd_secret_key |-> st.node_secrets.peerd_secret_key,
                      node_id |-> node_id(st.node_secrets)]
             send == BusSend("Ctl", "Wallet", "Farcasterd", keys)
                         @@ [delivered |-> send_ok]
         IN  Outcome(st, IF send_ok THEN Ok ELSE TransportError, <<send>>)

\* Mutant: the catch-all arm returns NotSupported, as syncerd's handle_ctl does.
Wallet_handle_ctl_Strict(st, source, request, derive_ok, send_ok) ==
    CASE request.variant = "Hello" -> Outcome(st, Ok, <<>>)
      [] request.variant = "CreateSwapKeys" ->
            WalletCreateSwapKeys(st, request, derive_ok, send_ok)
      [] request.variant = "GetKeys" -> WalletGetKeys(st, request, send_ok)
      [] OTHER -> Outcome(st, NotSupported("Ctl", to_string(request)), <<>>)

\* Mutant: replies go back to the service the request came from.
Wallet_handle_ctl_ReplyToSource(st, source, request, derive_ok, send_ok) ==
    LET out == CASE request.variant = "Hello" -> Outcome(st, Ok, <<>>)
                 [] request.variant = "CreateSwapKeys" ->
                       WalletCreateSwapKeys(st, request, derive_ok, send_ok)
                 [] request.variant = "GetKeys" -> WalletGetKeys(st, request, send_ok)
                 [] OTHER -> Outcome(st, Ok, <<>>)
    IN  [out EXCEPT !.sent = [i \in DOMAIN out.sent |-> [out.sent[i] EXCEPT !.dst = source]]]

\* walletd Runtime::handle_ctl
Wallet_handle_ctl(st, source, request, derive_ok, send_ok) ==
    CASE request.variant = "Hello" -> Outcome(st, Ok, <<>>)
      [] request.variant = "CreateSwapKeys" ->
            WalletCreateSwapKeys(st, request, derive_ok, send_ok)
      [] request.variant = "GetKeys" -> WalletGetKeys(st, request, send_ok)
      [] OTHER -> Outcome(st, Ok, <<>>)

\* Mutant: dispatch on the message family alone, whatever the lane.
Wallet_handle_AnyLane(st, bus, source, request, derive_ok, send_ok) ==
    IF request.family = "Ctl"
    THEN Wallet_handle_ctl(st, source, request, derive_ok, send_ok)
    ELSE Outcome(st, NotSupported(bus, to_string(request)), <<>>)

\* walletd Runtime::handle
Wallet_handle(st, bus, source, request, derive_ok, send_ok) ==
    IF bus = "Ctl" /\ request.family = "Ctl"
    THEN Wallet_handle_ctl(st, source, request, derive_ok, send_ok)
    ELSE Outcome(st, NotSupported(bus, to_string(request)), <<>>)

\* walletd Runtime::handle_err: Ok(()) whatever the error, nothing touched.
Wallet_handle_err(st) == Outcome(st, Ok, <<>>)

\* One iteration of walletd's controller loop on one incoming message: the
\* handler runs to completion; an Err is logged and handed to handle_err.
\* up: the loop goes on to the next message (it stops only if handle_err
\* itself returned an error).
WalletLoop(st, bus, source, request, derive_ok, send_ok) ==
    LET out == Wallet_handle(st, bus, source, request, derive_ok, send_ok)
    IN  IF out.result = Ok THEN out @@ [up |-> TRUE]
        ELSE [out EXCEPT !.st = Wallet_handle_err(out.st).st]
                @@ [up |-> Wallet_handle_err(out.st).result = Ok]

\* The csk_log entry of a CreateSwapKeys that passed the token check: the
\* index its reply carries (0 when no reply was sent), whether it returned
\* Ok, and the run of walletd that served it.
CskEntry(out, run) ==
    [index |-> IF out.sent = <<>> THEN 0 ELSE out.sent[1].msg.key_manager.index,
     ok |-> out.result = Ok,
     run |-> run]

LastTwo(log) == IF Len(log) <= 2 THEN log ELSE SubSeq(log, Len(log) - 1, Len(log))

\* The indices carried by the SwapKeys replies among the send_to calls.
SwapKeysIndices(sent) ==
    {sent[i].msg.key_manager.index :
        i \in {j \in 1..Len(sent) : sent[j].msg.variant = "SwapKeys"}}

\* wallet_last while the controller waits for the next message.
NoMessage ==
    [bus |-> "", source |-> "", request |-> [family |-> "", variant |-> ""],
     pre |-> [wallet_token |-> ""], result |-> <<"None">>, sent |-> <<>>]

WalletHandle(bus, source, request, derive_ok, send_ok) ==
    \E out \in {WalletLoop(WalletState, bus, source, request, derive_ok, send_ok)} :
        /\ wallet_up
        /\ wallet_last.bus = ""
        /\ out.st.node_secrets.wallet_counter <= MaxCounter
        /\ wallet_up' = out.up
        /\ wallet_token' = out.st.wallet_token
        /\ node_secrets' = out.st.node_secrets
        /\ wallet_dat' = out.st.wallet_dat
        /\ wallet_last' = [bus |-> bus, source |-> source, request |-> request,
                           pre |-> WalletState,
                           result |-> out.result, sent |-> out.sent]
        /\ csk_log' =
              IF bus = "Ctl" /\ request.variant = "CreateSwapKeys"
                    /\ out.result # InvalidToken
              THEN LastTwo(Append(csk_log, CskEntry(out, wallet_runs)))
              ELSE csk_log
        /\ handed_out' = handed_out (+) SetToBag(SwapKeysIndices(out.sent))
        /\ UNCHANGED <<token, wallet_runs, syncer_vars, aux_vars>>

\* The controller has logged the outcome and waits for the next message.
WalletPoll ==
    /\ wallet_up
    /\ wallet_last.bus # ""
    /\ wallet_last' = NoMessage
    /\ UNCHANGED <<token, wallet_up, wallet_token, node_secrets, wallet_dat,
                   wallet_runs, csk_log, handed_out, syncer_vars, aux_vars>>

\* Requests whose handling calls KeyManager::new or endpoints.send_to.
GatedMsgs == {m \in CtlMsgs : m.variant \in {"CreateSwapKeys", "GetKeys"}}

\* A message that reaches no fallible call: nothing can fail underneath it.
WalletDeliver ==
    \E bus \in ServiceBus, source \in WalletSources, request \in WalletMsgs :
        /\ ~(bus = "Ctl" /\ request \in GatedMsgs)
        /\ WalletHandle(bus, source, request, TRUE, TRUE)

\* A token-gated request on the Ctl lane, under every outcome of key
\* derivation and of the bus send.
WalletDeliverGated ==
    \E source \in WalletSources, request \in GatedMsgs,
       derive_ok \in BOOLEAN, send_ok \in BOOLEAN :
        /\ (request.variant = "GetKeys" => derive_ok)
        /\ WalletHandle("Ctl", source, request, derive_ok, send_ok)

\* The bus reports an error on the connection to a service (esb::Error): the
\* controller logs it and hands it to handle_err. wallet_last records the
\* error: no message was handled (bus is "").
WalletBusError ==
    \E source \in WalletSources, out \in {Wallet_handle_err(WalletState)} :
        /\ wallet_up
        /\ wallet_last.bus = ""
        /\ wallet_up' = (out.result = Ok)
        /\ wallet_token' = out.st.wallet_token
        /\ node_secrets' = out.st.node_secrets
        /\ wallet_dat' = out.st.wallet_dat
        /\ wallet_last' = [bus |-> "", source |-> source,
                           request |-> [family |-> "", variant |-> "esb::Error"],
                           pre |-> WalletState,
                           result |-> out.result, sent |-> out.sent]
        /\ UNCHANGED <<token, wallet_runs, csk_log, handed_out, syncer_vars, aux_vars>>

\* The walletd process is killed.
WalletCrash ==
    /\ wallet_up
    /\ wallet_up' = FALSE
    /\ wallet_last' = NoMessage
    /\ UNCHANGED <<token, wallet_token, node_secrets, wallet_dat, wallet_runs, csk_log,
                   handed_out, syncer_vars, aux_vars>>

\* NodeSecrets as read back from wallet.dat when walletd starts.
LoadNodeSecrets(dat) ==
    [peerd_secret_key |-> "peerd_sk", wallet_seed |-> "seed", wallet_counter |-> dat]

\* Mutant: run() ignores the node secrets it is given and starts from index 0.
WalletRun_FreshSecrets ==
    /\ ~wallet_up
    /\ wallet_runs < MaxRuns
    /\ wallet_runs' = wallet_runs + 1
    /\ wallet_up' = TRUE
    /\ wallet_token' = token
    /\ node_secrets' = LoadNodeSecrets(0)
    /\ UNCHANGED <<token, wallet_dat, wallet_last, csk_log, handed_out, syncer_vars, aux_vars>>

\* walletd run(): a Runtime built from the token farcasterd hands over and the
\* node secrets.
WalletRun ==
    /\ ~wallet_up
    /\ wallet_runs < MaxRuns
    /\ wallet_runs' = wallet_runs + 1
    /\ wallet_up' = TRUE
    /\ wallet_token' = token
    /\ node_secrets' = LoadNodeSecrets(wallet_dat)
    /\ UNCHANGED <<token, wallet_dat, wallet_last, csk_log, handed_out, syncer_vars, aux_vars>>

\* ------------------------------------------------------------------ syncerd
\* Runtime.identity of the syncer: ServiceId::Syncer(blockchain, network).
SyncerIdentity == "Syncer(Bitcoin,Testnet)"

SyncerdTask(task, source) == [task |-> task, source |-> source]

\* The syncerd state a handler reads and writes, as one record.
SyncerState == [tasks |-> tasks, rx_alive |-> rx_alive]

\* Mutant: Eq / Hash of SyncerdTask look at the task alone, not at the source.
HashSetInsert_ByTask(set, x) ==
    IF \E y \in BagToSet(set) : y.task = x.task THEN set ELSE set (+) SetToBag({x})

\* HashSet::insert under the derived Eq / Hash of SyncerdTask (all fields):
\* an element equal to x already in the set leaves the set as it is.
HashSetInsert(set, x) ==
    IF BagIn(x, set) THEN set ELSE set (+) SetToBag({x})

\* self.tasks.iter().cloned().collect(): the elements, in no particular order.
TaskList(set) == BagToSet(set)

\* What one run of a syncerd handler produces: the state after, the result,
\* the endpoints.send_to calls, the tasks pushed on tx, whether the process
\* called exit, and the sub-handler that ran.
SyncerOutcome(st, result, sent, forwarded, exit, handler) ==
    [st |-> st, result |-> result, sent |-> sent, forwarded |-> forwarded,
     exit |-> exit, handler |-> handler]

\* Mutant: Terminate is obeyed whoever sent it.
Syncer_handle_ctl_AnySource(st, source, request) ==
    CASE request.variant = "Hello" ->
            SyncerOutcome(st, Ok, <<>>, <<>>, FALSE, "handle_ctl")
      [] request.variant = "Terminate" ->
            SyncerOutcome(st, Ok, <<>>, <<>>, TRUE, "handle_ctl")
      [] OTHER ->
            SyncerOutcome(st, NotSupported("Ctl", to_string(request)), <<>>, <<>>,
                          FALSE, "handle_ctl")

\* syncerd Runtime::handle_ctl
Syncer_handle_ctl(st, source, request) ==
    CASE request.variant = "Hello" ->
            SyncerOutcome(st, Ok, <<>>, <<>>, FALSE, "handle_ctl")
      [] request.variant = "Terminate" /\ source = "Farcasterd" ->
            SyncerOutcome(st, Ok, <<>>, <<>>, TRUE, "handle_ctl")
      [] OTHER ->
            SyncerOutcome(st, NotSupported("Ctl", to_string(request)), <<>>, <<>>,
                          FALSE, "handle_ctl")

\* CtlServer::send_client_info: one Info message from this service to dest.
send_client_info(identity, dest, msg, send_ok) ==
    BusSend("Info", identity, dest, msg) @@ [delivered |-> send_ok]

\* Mutant: the reply carries the task list as it was at startup.
Syncer_handle_info_Cached(st, source, request, send_ok) ==
    CASE request.variant = "GetInfo" ->
            SyncerOutcome(st, IF send_ok THEN Ok ELSE TransportError,
                <<send_client_info(SyncerIdentity, source,
                    [family |-> "Info", variant |-> "SyncerInfo",
                     syncer |-> SyncerIdentity, tasks |-> TaskList(EmptyBag)],
                    send_ok)>>,
                <<>>, FALSE, "handle_info")
      [] request.variant = "ListTasks" ->
            SyncerOutcome(st, IF send_ok THEN Ok ELSE TransportError,
                <<send_client_info(SyncerIdentity, source,
                    [family |-> "Info", variant |-> "TaskList",
                     tasks |-> TaskList(EmptyBag)],
                    send_ok)>>,
                <<>>, FALSE, "handle_info")
      [] OTHER -> SyncerOutcome(st, Ok, <<>>, <<>>, FALSE, "handle_info")

\* syncerd Runtime::handle_info
Syncer_handle_info(st, source, request, send_ok) ==
    CASE request.variant = "GetInfo" ->
            SyncerOutcome(st, IF send_ok THEN Ok ELSE TransportError,
                <<send_client_info(SyncerIdentity, source,
                    [family |-> "Info", variant |-> "SyncerInfo",
                     syncer |-> SyncerIdentity, tasks |-> TaskList(st.tasks)],
                    send_ok)>>,
                <<>>, FALSE, "handle_info")
      [] request.variant = "ListTasks" ->
            SyncerOutcome(st, IF send_ok THEN Ok ELSE TransportError,
                <<send_client_info(SyncerIdentity, source,
                    [family |-> "Info", variant |-> "TaskList",
                     tasks |-> TaskList(st.tasks)],
                    send_ok)>>,
                <<>>, FALSE, "handle_info")
      [] OTHER -> SyncerOutcome(st, Ok, <<>>, <<>>, FALSE, "handle_info")

\* Mutant: an Abort takes the task it names out of the set instead of being
\* recorded itself.
Syncer_handle_sync_AbortRemoves(st, source, request) ==
    CASE request.variant = "Task" /\ request.task.kind = "Abort" ->
            LET t == SyncerdTask(request.task, source)
                named == {p \in BagToSet(st.tasks) :
                             p.source = source /\ p.task.id = request.task.task_id}
            IN  SyncerOutcome([st EXCEPT !.tasks = st.tasks (-) SetToBag(named)], Ok, <<>>,
                              IF st.rx_alive THEN <<t>> ELSE <<>>, FALSE, "handle_sync")
      [] request.variant = "Task" ->
            LET t == SyncerdTask(request.task, source)
            IN  SyncerOutcome([st EXCEPT !.tasks = HashSetInsert(st.tasks, t)], Ok, <<>>,
                              IF st.rx_alive THEN <<t>> ELSE <<>>, FALSE, "handle_sync")
      [] OTHER -> SyncerOutcome(st, Ok, <<>>, <<>>, FALSE, "handle_sync")

\* Mutant: the task is sent first and a failed send is returned as an error
\* before the task is recorded.
Syncer_handle_sync_SendFirst(st, source, request) ==
    CASE request.variant = "Task" ->
            LET t == SyncerdTask(request.task, source)
            IN  IF st.rx_alive
                THEN SyncerOutcome([st EXCEPT !.tasks = HashSetInsert(st.tasks, t)], Ok, <<>>,
                                   <<t>>, FALSE, "handle_sync")
                ELSE SyncerOutcome(st, <<"SendError">>, <<>>, <<>>, FALSE, "handle_sync")
      [] OTHER -> SyncerOutcome(st, Ok, <<>>, <<>>, FALSE, "handle_sync")

\* syncerd Runtime::handle_sync. The task is inserted, then sent on tx; a send
\* on a channel whose Receiver is gone fails and is only logged.
Syncer_handle_sync(st, source, request) ==
    CASE request.variant = "Task" ->
            LET t == SyncerdTask(request.task, source)
            IN  SyncerOutcome([st EXCEPT !.tasks = HashSetInsert(st.tasks, t)], Ok, <<>>,
                              IF st.rx_alive THEN <<t>> ELSE <<>>, FALSE, "handle_sync")
      [] OTHER -> SyncerOutcome(st, Ok, <<>>, <<>>, FALSE, "handle_sync")

\* Mutant: the event is sent back to the message's source, not to the source
\* recorded in the bridge event.
Syncer_handle_bridge_ToSender(st, source, request, send_ok) ==
    CASE request.variant = "BridgeEvent" ->
            SyncerOutcome(st, IF send_ok THEN Ok ELSE TransportError,
                <<BusSend("Sync", SyncerIdentity, source,
                          [family |-> "Sync", variant |-> "Event", event |-> request.event])
                    @@ [delivered |-> send_ok]>>,
                <<>>, FALSE, "handle_bridge")
      [] OTHER -> SyncerOutcome(st, Ok, <<>>, <<>>, FALSE, "handle_bridge")

\* Mutant: the event goes to the source of some outstanding task, whichever.
Syncer_handle_bridge_AnyTaskSource(st, source, request, send_ok) ==
    CASE request.variant = "BridgeEvent" ->
            SyncerOutcome(st, IF send_ok THEN Ok ELSE TransportError,
                <<BusSend("Sync", SyncerIdentity,
                          (CHOOSE t \in BagToSet(st.tasks) :
                              \A u \in BagToSet(st.tasks) : t.source = u.source
                                 \/ t.source # request.source).source,
                          [family |-> "Sync", variant |-> "Event", event |-> request.event])
                    @@ [delivered |-> send_ok]>>,
                <<>>, FALSE, "handle_bridge")
      [] OTHER -> SyncerOutcome(st, Ok, <<>>, <<>>, FALSE, "handle_bridge")

\* syncerd Runtime::handle_bridge
Syncer_handle_bridge(st, source, request, send_ok) ==
    CASE request.variant = "BridgeEvent" ->
            SyncerOutcome(st, IF send_ok THEN Ok ELSE TransportError,
                <<BusSend("Sync", SyncerIdentity, request.source,
                          [family |-> "Sync", variant |-> "Event", event |-> request.event])
                    @@ [delivered |-> send_ok]>>,
                <<>>, FALSE, "handle_bridge")
      [] OTHER -> SyncerOutcome(st, Ok, <<>>, <<>>, FALSE, "handle_bridge")

\* Mutant: dispatch on the message family alone; the lane is not looked at.
Syncer_handle_AnyLane(st, bus, source, request, send_ok) ==
    CASE request.family = "Ctl" -> Syncer_handle_ctl(st, source, request)
      [] request.family = "Info" -> Syncer_handle_info(st, source, request, send_ok)
      [] request.family = "Sync" /\ bus # "Bridge" -> Syncer_handle_sync(st, source, request)
      [] OTHER -> Syncer_handle_bridge(st, source, request, send_ok)

\* syncerd Runtime::handle
Syncer_handle(st, bus, source, request, send_ok) ==
    CASE bus = "Ctl" /\ request.family = "Ctl" -> Syncer_handle_ctl(st, source, request)
      [] bus = "Info" /\ request.family = "Info" ->
            Syncer_handle_info(st, source, request, send_ok)
      [] bus = "Sync" /\ request.family = "Sync" -> Syncer_handle_sync(st, source, request)
      [] bus = "Bridge" /\ request.family = "Sync" ->
            Syncer_handle_bridge(st, source, request, send_ok)
      [] OTHER ->
            SyncerOutcome(st, NotSupported(bus, to_string(request)), <<>>, <<>>,
                          FALSE, "none")

\* Mutant: the bus error is propagated instead of swallowed.
Syncer_handle_err_Propagate(st) ==
    SyncerOutcome(st, <<"Esb">>, <<>>, <<>>, FALSE, "handle_err")

\* syncerd Runtime::handle_err: Ok(()) whatever the error, nothing touched.
Syncer_handle_err(st) == SyncerOutcome(st, Ok, <<>>, <<>>, FALSE, "handle_err")

\* One iteration of syncerd's controller loop on one incoming message: the
\* handler runs to completion; an Err is logged and handed to handle_err.
SyncerLoop(st, bus, source, request, send_ok) ==
    LET out == Syncer_handle(st, bus, source, request, send_ok)
    IN  IF out.result = Ok THEN out @@ [up |-> ~out.exit]
        ELSE [out EXCEPT !.st = Syncer_handle_err(out.st).st]
                @@ [up |-> Syncer_handle_err(out.st).result = Ok]

\* syncer_last while the controller waits for the next message.
SyncerNoMessage ==
    [bus |-> "", source |-> "", request |-> [family |-> "", variant |-> ""],
     pre |-> [tasks |-> EmptyBag, rx_alive |-> TRUE],
     result |-> <<"None">>, sent |-> <<>>, forwarded |-> <<>>, handler |-> ""]

\* Mutant: a forwarded task jumps the queue to the Synclet.
SyncerHandle_Prepend(bus, source, request, send_ok) ==
    \E out \in {SyncerLoop(SyncerState, bus, source, request, send_ok)} :
        /\ syncer_up
        /\ syncer_last.bus = ""
        /\ syncer_up' = out.up
        /\ tasks' = out.st.tasks
        /\ tx' = out.forwarded \o tx
        /\ syncer_last' = [bus |-> bus, source |-> source, request |-> request,
                           pre |-> SyncerState, result |-> out.result,
                           sent |-> out.sent, forwarded |-> out.forwarded,
                           handler |-> out.handler]
        /\ submitted' =
              IF out.handler = "handle_sync" /\ request.variant = "Task"
              THEN submitted (+) SetToBag({SyncerdTask(request.task, source)})
              ELSE submitted
        /\ UNCHANGED <<rx_alive, synclet_tasks, wallet_vars, aux_vars>>

\* Mutant: tx is a channel of capacity one; send waits for the Synclet to
\* take the task before it.
SyncerHandle_Rendezvous(bus, source, request, send_ok) ==
    \E out \in {SyncerLoop(SyncerState, bus, source, request, send_ok)} :
        /\ syncer_up
        /\ syncer_last.bus = ""
        /\ out.forwarded # <<>> => tx = <<>>
        /\ syncer_up' = out.up
        /\ tasks' = out.st.tasks
        /\ tx' = tx \o out.forwarded
        /\ syncer_last' = [bus |-> bus, source |-> source, request |-> request,
                           pre |-> SyncerState, result |-> out.result,
                           sent |-> out.sent, forwarded |-> out.forwarded,
                           handler |-> out.handler]
        /\ submitted' =
              IF out.handler = "handle_sync" /\ request.variant = "Task"
              THEN submitted (+) SetToBag({SyncerdTask(request.task, source)})
              ELSE submitted
        /\ UNCHANGED <<rx_alive, synclet_tasks, wallet_vars, aux_vars>>

SyncerHandle(bus, source, request, send_ok) ==
    \E out \in {SyncerLoop(SyncerState, bus, source, request, send_ok)} :
        /\ syncer_up
        /\ syncer_last.bus = ""
        /\ syncer_up' = out.up
        /\ tasks' = out.st.tasks
        /\ tx' = tx \o out.forwarded
        /\ syncer_last' = [bus |-> bus, source |-> source, request |-> request,
                           pre |-> SyncerState, result |-> out.result,
                           sent |-> out.sent, forwarded |-> out.forwarded,
                           handler |-> out.handler]
        /\ submitted' =
              IF out.handler = "handle_sync" /\ request.variant = "Task"
              THEN submitted (+) SetToBag({SyncerdTask(request.task, source)})
              ELSE submitted
        /\ UNCHANGED <<rx_alive, synclet_tasks, wallet_vars, aux_vars>>

\* Messages whose handling calls endpoints.send_to.
InfoQueries == {m \in InfoMsgs : m.variant \in {"GetInfo", "ListTasks"}}

\* The (lane, family) pairs Runtime::handle dispatches.
Dispatched(bus, request) ==
    \/ bus \in {"Ctl", "Info", "Sync"} /\ request.family = bus
    \/ bus = "Bridge" /\ request.family = "Sync"

\* A message from another service on the lane of its family, or a Sync message
\* other than a bridge event on the Bridge lane. Task submissions are capped.
SyncerDeliver ==
    \E bus \in ServiceBus, source \in Sources, request \in SyncerMsgs :
        /\ Dispatched(bus, request)
        /\ ~(bus = "Bridge" /\ request.variant = "BridgeEvent")
        /\ ~(bus = "Info" /\ request \in InfoQueries)
        /\ (bus = "Sync" /\ request.variant = "Task") =>
              BagCardinality(submitted) < MaxSubmit
        /\ SyncerHandle(bus, source, request, TRUE)
        /\ UNCHANGED bridge

\* A message on a lane that does not carry its family; handle rejects it
\* before it looks at the source, so one sender stands for all.
SyncerDeliverMisrouted ==
    \E bus \in ServiceBus, request \in SyncerMsgs :
        /\ ~Dispatched(bus, request)
        /\ SyncerHandle(bus, "Swap42", request, TRUE)
        /\ UNCHANGED bridge

\* An Info query, under both outcomes of the bus send.
SyncerDeliverInfo ==
    \E source \in Sources, request \in InfoQueries, send_ok \in BOOLEAN :
        /\ SyncerHandle("Info", source, request, send_ok)
        /\ UNCHANGED bridge

\* ServiceId values a Ctl message can come from.
ServiceIds ==
    {"Farcasterd", "Client", "Swap42", "Peer", "Wallet", "Syncer(Monero,Testnet)"}

\* Terminate on the Ctl lane, from any service.
SyncerDeliverTerminate ==
    \E source \in ServiceIds :
        /\ SyncerHandle("Ctl", source, [family |-> "Ctl", variant |-> "Terminate"], TRUE)
        /\ UNCHANGED bridge

\* The Runtime takes the next bridge event the Synclet wrote.
SyncerDeliverBridge ==
    \E send_ok \in BOOLEAN :
        /\ bridge # <<>>
        /\ bridge' = Tail(bridge)
        /\ SyncerHandle("Bridge", SyncerIdentity,
                        [family |-> "Sync", variant |-> "BridgeEvent",
                         event |-> Head(bridge).event, source |-> Head(bridge).source],
                        send_ok)

\* The bus reports an error on the connection to a service (esb::Error), as
\* when that service has died: the controller logs it and hands it to
\* handle_err. syncer_last records the error: no message was handled.
SyncerBusError ==
    \E source \in Sources, out \in {Syncer_handle_err(SyncerState)} :
        /\ syncer_up
        /\ syncer_last.bus = ""
        /\ syncer_up' = (out.result = Ok)
        /\ tasks' = out.st.tasks
        /\ tx' = tx \o out.forwarded
        /\ syncer_last' = [bus |-> "", source |-> source,
                           request |-> [family |-> "", variant |-> "esb::Error"],
                           pre |-> SyncerState, result |-> out.result,
                           sent |-> out.sent, forwarded |-> out.forwarded,
                           handler |-> out.handler]
        /\ UNCHANGED <<rx_alive, synclet_tasks, bridge, submitted, wallet_vars, aux_vars>>

\* The controller has logged the outcome and waits for the next message.
SyncerPoll ==
    /\ syncer_up
    /\ syncer_last.bus # ""
    /\ syncer_last' = SyncerNoMessage
    /\ UNCHANGED <<syncer_up, tasks, tx, rx_alive, synclet_tasks, bridge, submitted,
                   wallet_vars, aux_vars>>

\* The event a Synclet reports for a task.
EventFor(task) ==
    [kind |-> IF task.kind = "Abort" THEN "TaskAborted" ELSE "HeightChanged",
     id |-> task.id]

\* Synclet: take the next task from the channel.
SyncletReceive ==
    /\ syncer_up /\ rx_alive
    /\ syncer_last.bus = ""
    /\ tx # <<>>
    /\ synclet_tasks' = synclet_tasks \cup {Head(tx)}
    /\ tx' = Tail(tx)
    /\ UNCHANGED <<syncer_up, tasks, rx_alive, bridge, syncer_last, submitted, wallet_vars, aux_vars>>

\* Synclet: report an event of one of its tasks on the bridge, addressed to
\* the source that submitted the task.
SyncletEmit ==
    /\ syncer_up /\ rx_alive
    /\ syncer_last.bus = ""
    /\ Len(bridge) < MaxBridge
    /\ \E t \in synclet_tasks :
          bridge' = Append(bridge, [event |-> EventFor(t.task), source |-> t.source])
    /\ UNCHANGED <<syncer_up, tasks, tx, rx_alive, synclet_tasks, syncer_last, submitted,
                   wallet_vars, aux_vars>>

\* Synclet: report events in a burst, several waiting in the bridge before
\* the Runtime takes the first.
SyncletEmitBurst ==
    /\ syncer_up /\ rx_alive
    /\ syncer_last.bus = ""
    /\ Len(bridge) < MaxBurst
    /\ \E t \in synclet_tasks :
          bridge' = Append(bridge, [event |-> EventFor(t.task), source |-> t.source])
    /\ UNCHANGED <<syncer_up, tasks, tx, rx_alive, synclet_tasks, syncer_last, submitted,
                   wallet_vars, aux_vars>>

\* The Synclet thread ends: the Receiver is dropped with what it still held.
SyncletStop ==
    /\ syncer_up /\ rx_alive
    /\ syncer_last.bus = ""
    /\ rx_alive' = FALSE
    /\ tx' = <<>>
    /\ synclet_tasks' = {}
    /\ UNCHANGED <<syncer_up, tasks, bridge, syncer_last, submitted, wallet_vars, aux_vars>>


\* ------------------------------------------------- test session (spawn_swap)
\* The services farcasterd launches on demand for a new (chain, network) pair.
Syncers == {"syncerd(Bitcoin)", "syncerd(Monero)"}

\* farcasterd serving a make request: a peerd is started to listen for the
\* taker, and a syncer for each chain of the offer not yet running.
FarcasterdMake(alive, launched) == alive \cup {"peerd"} \cup launched

\* Mutant: Pedicide takes down the peer daemons only.
FarcasterdPedicide_PeersOnly(alive, survives) == alive \ {"peerd"}

\* farcasterd serving Pedicide: every child is killed at once, without its
\* cooperation; the supervisor itself may go down with them.
FarcasterdPedicide(alive, survives) ==
    IF survives THEN alive \cap {"farcasterd"} ELSE {}

\* launch("../farcasterd", data_dir).unwrap(): farcasterd runs and has started
\* walletd with the runtime token.
TestLaunch ==
    /\ test_pc = "launch"
    /\ test_pc' = "ls"
    /\ procs' = {"farcasterd", "walletd"}
    /\ spawned' = {"walletd"}
    /\ UNCHANGED <<results, cli, checkpoint, wallet_vars, syncer_vars>>

\* Command::Ls.exec(&mut client); an error is printed and the test goes on.
TestLs ==
    \E ok \in BOOLEAN :
        /\ test_pc = "ls"
        /\ test_pc' = "make"
        /\ results' = Append(results, ok)
        /\ UNCHANGED <<procs, spawned, cli, checkpoint, wallet_vars, syncer_vars>>

\* opts.command.exec(&mut client) with the make command, first with default
\* and then with explicit arguments; an error is printed and the test goes on.
TestMake ==
    \E ok \in BOOLEAN, launched \in SUBSET Syncers :
        /\ test_pc \in {"make", "make_offer"}
        /\ test_pc' = IF test_pc = "make" THEN "make_offer" ELSE "pedicide"
        /\ ~ok => launched = {}
        /\ results' = Append(results, ok)
        /\ procs' = IF ok THEN FarcasterdMake(procs, launched) ELSE procs
        /\ spawned' = IF ok THEN spawned \cup (FarcasterdMake(procs, launched) \ procs)
                      ELSE spawned
        /\ UNCHANGED <<cli, checkpoint, wallet_vars, syncer_vars>>

\* Command::Pedicide.exec(&mut client); an error is printed and the test goes on.
TestPedicide ==
    \E ok \in BOOLEAN, survives \in BOOLEAN :
        /\ test_pc = "pedicide"
        /\ ~ok => survives
        /\ test_pc' = "kill"
        /\ results' = Append(results, ok)
        /\ procs' = IF ok THEN FarcasterdPedicide(procs, survives) ELSE procs
        /\ UNCHANGED <<spawned, cli, checkpoint, wallet_vars, syncer_vars>>

\* farcasterd.kill().expect(..)
TestKill ==
    /\ test_pc = "kill"
    /\ test_pc' = "ps"
    /\ procs' = procs \ {"farcasterd"}
    /\ UNCHANGED <<spawned, results, cli, checkpoint, wallet_vars, syncer_vars>>

\* ps -e is read and searched for farcasterd and peerd.
TestPs ==
    /\ test_pc = "ps"
    /\ test_pc' = "done"
    /\ UNCHANGED <<procs, spawned, results, cli, checkpoint, wallet_vars, syncer_vars>>

\* ------------------------------------------------------------ CLI responses
\* Result<String, Error> and Result<(), Error> values handed to the converters.
StringResults ==
    { [ok |-> TRUE, val |-> v] : v \in {"listening", "connected"} }
        \cup { [ok |-> FALSE, err |-> e] : e \in {"Esb", "Farcaster"} }

UnitResults ==
    { [ok |-> TRUE, val |-> "()"] }
        \cup { [ok |-> FALSE, err |-> e] : e \in {"Esb", "Farcaster"} }

\* OptionDetails::with and OptionDetails::new
OptionDetails_with(s) == <<"Some", s>>

OptionDetails_new == <<"None">>

\* impl From<crate::Error> for Request
Request_from(err) == [variant |-> "Failure", failure |-> err]

\* Mutant: an error is reported as one more progress line.
into_progress_or_failure_Swallow(res) ==
    IF res.ok THEN [variant |-> "Progress", info |-> res.val]
    ELSE [variant |-> "Progress", info |-> res.err]

\* impl IntoProgressOrFalure for Result<String, crate::Error>
into_progress_or_failure(res) ==
    IF res.ok THEN [variant |-> "Progress", info |-> res.val]
    ELSE Request_from(res.err)

\* impl IntoSuccessOrFalure for Result<String, crate::Error> and for
\* Result<(), crate::Error>
into_success_or_failure(res) ==
    IF res.ok
    THEN [variant |-> "Success",
          details |-> IF res.val = "()" THEN OptionDetails_new
                      ELSE OptionDetails_with(res.val)]
    ELSE Request_from(res.err)

\* CLI requests farcasterd answers with a response stream.
CliRequests == {"Listen", "ConnectPeer", "FundSwap"}

CliIdle == [pc |-> "idle", request |-> "", results |-> <<>>, responses |-> <<>>]

\* A CLI request reaches farcasterd.
CliRequest ==
    \E request \in CliRequests :
        /\ cli.pc = "idle"
        /\ cli' = [pc |-> "running", request |-> request,
                   results |-> <<>>, responses |-> <<>>]
        /\ UNCHANGED <<test_pc, procs, spawned, results, checkpoint, wallet_vars, syncer_vars>>

\* farcasterd reports an intermediate step of the request; a failed step ends
\* the request.
CliStep ==
    \E res \in StringResults : \E out \in {into_progress_or_failure(res)} :
        /\ cli.pc = "running"
        /\ Len(cli.responses) < MaxProgress
        /\ cli' = [cli EXCEPT !.pc = IF out.variant = "Failure" THEN "done" ELSE "running",
                               !.results = Append(@, [by |-> "progress", res |-> res]),
                               !.responses = Append(@, out)]
        /\ UNCHANGED <<test_pc, procs, spawned, results, checkpoint, wallet_vars, syncer_vars>>

\* farcasterd reports the outcome of the request's last step.
CliFinish ==
    \E res \in StringResults \cup UnitResults : \E out \in {into_success_or_failure(res)} :
        /\ cli.pc = "running"
        /\ cli' = [cli EXCEPT !.pc = "done",
                               !.results = Append(@, [by |-> "success", res |-> res]),
                               !.responses = Append(@, out)]
        /\ UNCHANGED <<test_pc, procs, spawned, results, checkpoint, wallet_vars, syncer_vars>>

\* ------------------------------------------------------- CheckpointWallet
\* Byte values that occur in the encodings.
Bytes == {0, 1, 18}

\* Sequences over S of length at most n.
RECURSIVE SeqsUpTo(_, _)
SeqsUpTo(S, n) ==
    IF n = 0 THEN {<<>>}
    ELSE LET shorter == SeqsUpTo(S, n - 1)
         IN  shorter \cup {Append(q, b) : q \in {r \in shorter : Len(r) = n - 1}, b \in S}

\* walletd::state::Wallet values, by the bytes of their body.
Wallets == [body : SeqsUpTo(Bytes, MaxBody)]

\* monero::Address values: a standard address, or an integrated address
\* carrying a payment id.
Addresses ==
    [kind : {"standard"}, keys : {<<1, 0>>, <<18, 1>>}]
        \cup [kind : {"integrated"}, keys : {<<1, 0>>, <<18, 1>>}, payment_id : {<<0>>, <<18>>}]

CheckpointWallets == [wallet : Wallets, xmr_addr : Addresses]

DataIntegrityError == <<"DataIntegrityError">>

\* Wallet::strict_encode: a self-delimiting segment, the body behind its length.
Wallet_strict_encode(wallet) == <<Len(wallet.body)>> \o wallet.body

\* Wallet::strict_decode: the value read and the bytes left in the reader.
Wallet_strict_decode(d) ==
    IF d = <<>> \/ Len(d) < 1 + d[1]
    THEN [ok |-> FALSE, err |-> DataIntegrityError]
    ELSE [ok |-> TRUE, val |-> [body |-> SubSeq(d, 2, 1 + d[1])],
          rest |-> SubSeq(d, 2 + d[1], Len(d))]

AddressMagic(kind) == IF kind = "standard" THEN 18 ELSE 19

\* monero::Address::consensus_encode: magic byte, keys, payment id if any.
consensus_encode(addr) ==
    <<AddressMagic(addr.kind)>> \o addr.keys
        \o (IF addr.kind = "integrated" THEN addr.payment_id ELSE <<>>)

\* monero::Address::consensus_decode: the value read and the bytes left.
consensus_decode(d) ==
    CASE d # <<>> /\ d[1] = AddressMagic("standard") /\ Len(d) >= 3 ->
            [ok |-> TRUE, val |-> [kind |-> "standard", keys |-> SubSeq(d, 2, 3)],
             rest |-> SubSeq(d, 4, Len(d))]
      [] d # <<>> /\ d[1] = AddressMagic("integrated") /\ Len(d) >= 4 ->
            [ok |-> TRUE,
             val |-> [kind |-> "integrated", keys |-> SubSeq(d, 2, 3),
                      payment_id |-> SubSeq(d, 4, 4)],
             rest |-> SubSeq(d, 5, Len(d))]
      [] OTHER -> [ok |-> FALSE, err |-> "monero::consensus::encode::Error"]

\* CheckpointWallet::strict_encode: the bytes written and the length returned.
strict_encode(x) ==
    LET wallet_bytes == Wallet_strict_encode(x.wallet)
        addr_bytes == consensus_encode(x.xmr_addr)
    IN  [ok |-> TRUE, bytes |-> wallet_bytes \o addr_bytes,
         len |-> Len(wallet_bytes) + Len(addr_bytes)]

\* Mutant: the decoder reads the address before the wallet.
strict_decode_AddressFirst(d) ==
    LET xmr_addr == consensus_decode(d)
    IN  IF ~xmr_addr.ok THEN [ok |-> FALSE, err |-> DataIntegrityError]
        ELSE LET wallet == Wallet_strict_decode(xmr_addr.rest)
             IN  IF ~wallet.ok THEN [ok |-> FALSE, err |-> wallet.err]
                 ELSE [ok |-> TRUE,
                       val |-> [wallet |-> wallet.val, xmr_addr |-> xmr_addr.val]]

\* CheckpointWallet::strict_decode
strict_decode(d) ==
    LET wallet == Wallet_strict_decode(d)
    IN  IF ~wallet.ok THEN [ok |-> FALSE, err |-> wallet.err]
        ELSE LET xmr_addr == consensus_decode(wallet.rest)
             IN  IF ~xmr_addr.ok THEN [ok |-> FALSE, err |-> DataIntegrityError]
                 ELSE [ok |-> TRUE,
                       val |-> [wallet |-> wallet.val, xmr_addr |-> xmr_addr.val]]

CheckpointIdle == [pc |-> "idle"]

\* A checkpoint value is serialized.
CheckpointEncode ==
    \E x \in CheckpointWallets :
        /\ checkpoint.pc = "idle"
        /\ checkpoint' = [pc |-> "encoded", value |-> x, encoded |-> strict_encode(x)]
        /\ UNCHANGED <<test_pc, procs, spawned, results, cli, wallet_vars, syncer_vars>>

\* The serialized checkpoint is read back.
CheckpointDecode ==
    /\ checkpoint.pc = "encoded"
    /\ checkpoint' = [pc |-> "decoded", value |-> checkpoint.value,
                      encoded |-> checkpoint.encoded,
                      decoded |-> strict_decode(checkpoint.encoded.bytes)]
    /\ UNCHANGED <<test_pc, procs, spawned, results, cli, wallet_vars, syncer_vars>>
\* ----------------------------------------------------------- specifications
\* farcasterd has drawn its token and started walletd (run()) and syncerd
\* (run(): empty task set, fresh channel, Synclet started).
Init ==
    /\ token = RuntimeToken
    /\ wallet_up = TRUE
    /\ wallet_token = token
    /\ wallet_dat = 0
    /\ node_secrets = LoadNodeSecrets(0)
    /\ wallet_last = NoMessage
    /\ wallet_runs = 1
    /\ csk_log = <<>>
    /\ handed_out = EmptyBag
    /\ syncer_up = TRUE
    /\ tasks = EmptyBag
    /\ tx = <<>>
    /\ rx_alive = TRUE
    /\ synclet_tasks = {}
    /\ bridge = <<>>
    /\ syncer_last = SyncerNoMessage
    /\ submitted = EmptyBag
    /\ test_pc = "launch"
    /\ procs = {}
    /\ spawned = {}
    /\ results = <<>>
    /\ cli = CliIdle
    /\ checkpoint = CheckpointIdle

WalletNext ==
    \/ WalletDeliver
    \/ WalletDeliverGated
    \/ WalletBusError
    \/ WalletPoll
    \/ WalletCrash
    \/ WalletRun

SyncerNext ==
    \/ SyncerDeliver
    \/ SyncerDeliverMisrouted
    \/ SyncerDeliverInfo
    \/ SyncerDeliverBridge
    \/ SyncerBusError
    \/ SyncerPoll
    \/ SyncletReceive
    \/ SyncletEmit
    \/ SyncletStop

\* walletd alone, under any traffic, with crashes and restarts.
WalletSpec == Init /\ [][WalletNext]_vars

\* syncerd (Runtime and Synclet) alone, under any traffic.
SyncerSpec == Init /\ [][SyncerNext]_vars

\* walletd and syncerd are separate processes that share no state: each is
\* exercised from its start while the other has not moved.
WalletUntouched ==
    /\ wallet_up /\ wallet_runs = 1
    /\ wallet_last = NoMessage
    /\ node_secrets.wallet_counter = 0
    /\ csk_log = <<>> /\ handed_out = EmptyBag

SyncerUntouched ==
    /\ syncer_up /\ rx_alive
    /\ syncer_last = SyncerNoMessage
    /\ tasks = EmptyBag /\ submitted = EmptyBag
    /\ tx = <<>> /\ synclet_tasks = {} /\ bridge = <<>>

ServicesNext ==
    \/ SyncerUntouched /\ WalletNext
    \/ WalletUntouched /\ SyncerNext

\* Either service, under any traffic.
ServicesSpec == Init /\ [][ServicesNext]_vars

SessionNext ==
    \/ TestLaunch
    \/ TestLs
    \/ TestMake
    \/ TestPedicide
    \/ TestKill
    \/ TestPs

\* The integration test spawn_swap, under every outcome of its CLI commands.
SessionSpec == Init /\ [][SessionNext]_vars

CliNext ==
    \/ CliRequest
    \/ CliStep
    \/ CliFinish

\* farcasterd answering one CLI request.
CliSpec == Init /\ [][CliNext]_vars

CheckpointNext ==
    \/ CheckpointEncode
    \/ CheckpointDecode

\* A CheckpointWallet written and read back.
CheckpointSpec == Init /\ [][CheckpointNext]_vars

OrderNext ==
    \/ SyncerDeliver
    \/ SyncerDeliverBridge
    \/ SyncerPoll
    \/ SyncletReceive
    \/ SyncletEmitBurst
    \/ SyncletStop

\* syncerd serving well-routed traffic of two sources, with a Synclet that
\* writes events in bursts.
OrderSpec == Init /\ [][OrderNext]_vars

TerminateNext ==
    \/ SyncerDeliver
    \/ SyncerDeliverTerminate
    \/ SyncerPoll
    \/ SyncletReceive

\* syncerd with tasks outstanding, sent Terminate by any service.
TerminateSpec == Init /\ [][TerminateNext]_vars

\* ================================================================== claims
\* The replies carrying key material among the send_to calls of a handler.
KeyReplies(sent) == SelectSeq(sent, LAMBDA m : m.msg.variant \in {"SwapKeys", "Keys"})

ReplyVariant(request) == IF request.variant = "CreateSwapKeys" THEN "SwapKeys" ELSE "Keys"

\* walletd has just handled a token-gated request on the Ctl lane.
GatedHandled == wallet_last.bus = "Ctl" /\ wallet_last.request \in GatedMsgs

TokenMatched == wallet_last.request.token = wallet_last.pre.wallet_token

\* The handler left token, secrets (counter included) and wallet.dat as they were.
WalletFrame ==
    /\ wallet_token = wallet_last.pre.wallet_token
    /\ node_secrets = wallet_last.pre.node_secrets
    /\ wallet_dat = wallet_last.pre.wallet_dat

\* C1 (as stated): a token-gated request on the Ctl lane gets a SwapKeys / Keys
\* reply if and only if its token equals the stored one; on a differing token
\* the outcome is InvalidToken, no reply is sent, wallet_counter is unchanged.
C1_Original ==
    GatedHandled =>
        /\ (KeyReplies(wallet_last.sent) # <<>>) <=> TokenMatched
        /\ ~TokenMatched => (wallet_last.result = InvalidToken /\ WalletFrame)

\* C1 (amended): the request passes the gate (outcome other than InvalidToken)
\* iff its token equals the stored one; one reply of the matching kind is sent
\* to Farcasterd iff the token matches and, for CreateSwapKeys, key derivation
\* succeeds; on a differing token the outcome is InvalidToken, no message is
\* sent and wallet_counter, token and wallet.dat are unchanged.
C1_TokenGate ==
    GatedHandled =>
        /\ (wallet_last.result = InvalidToken) <=> ~TokenMatched
        /\ (KeyReplies(wallet_last.sent) # <<>>) <=>
              (TokenMatched /\ wallet_last.result # CryptoError)
        /\ KeyReplies(wallet_last.sent) # <<>> =>
              /\ Len(wallet_last.sent) = 1
              /\ wallet_last.sent[1].msg.variant = ReplyVariant(wallet_last.request)
              /\ wallet_last.sent[1].dst = "Farcasterd"
        /\ wallet_last.result = CryptoError =>
              wallet_last.request.variant = "CreateSwapKeys"
        /\ ~TokenMatched => (wallet_last.sent = <<>> /\ WalletFrame)

\* A request with a wrong token was rejected after an index had been handed out.
C1_Witness ==
    /\ GatedHandled
    /\ ~TokenMatched
    /\ wallet_last.result = InvalidToken
    /\ node_secrets.wallet_counter > 0

\* C2: after a token-gated request whose token differs from the stored one, a
\* Failure message has been sent on the Ctl lane to the originator,
\* Farcasterd, and walletd is still serving.
C2_FailureReply ==
    (GatedHandled /\ ~TokenMatched) =>
        /\ wallet_up
        /\ \E i \in 1..Len(wallet_last.sent) :
              /\ wallet_last.sent[i].msg.variant = "Failure"
              /\ wallet_last.sent[i].bus = "Ctl"
              /\ wallet_last.sent[i].dst = "Farcasterd"

\* walletd has just handled a CreateSwapKeys that passed the token check.
CskHandled ==
    /\ GatedHandled
    /\ wallet_last.request.variant = "CreateSwapKeys"
    /\ wallet_last.result # InvalidToken

\* C3: wallet_counter never decreases; a CreateSwapKeys that passes the token
\* check advances it by one and its reply, if any, carries the new value; two
\* CreateSwapKeys in a row that both succeed reply with n and n + 1; no two
\* SwapKeys replies carry the same index.
C3_CounterStrictlyIncreasing ==
    /\ [](CskHandled =>
            /\ node_secrets.wallet_counter = wallet_last.pre.node_secrets.wallet_counter + 1
            /\ SwapKeysIndices(wallet_last.sent) \subseteq {node_secrets.wallet_counter}
            /\ wallet_last.result = Ok =>
                  SwapKeysIndices(wallet_last.sent) = {node_secrets.wallet_counter})
    /\ []((Len(csk_log) = 2 /\ csk_log[1].ok /\ csk_log[2].ok) =>
            csk_log[2].index = csk_log[1].index + 1)
    /\ []((Len(csk_log) = 2 /\ csk_log[1].index # 0 /\ csk_log[2].index # 0) =>
            csk_log[1].index < csk_log[2].index)
    /\ [](\A i \in BagToSet(handed_out) : CopiesIn(i, handed_out) = 1)
    /\ [][node_secrets'.wallet_counter >= node_secrets.wallet_counter]_vars

\* Two CreateSwapKeys in a row succeeded, with indices n and n + 1.
C3_Witness ==
    /\ Len(csk_log) = 2
    /\ csk_log[1].ok
    /\ csk_log[2].ok
    /\ csk_log[2].index = csk_log[1].index + 1
    /\ CskHandled
    /\ wallet_last.result = Ok

\* C4: every index carried by a SwapKeys reply is already stored in wallet.dat
\* when the reply is sent, a restarted walletd resumes from the stored
\* counter, and across crashes and restarts no index is handed out twice.
C4_PersistedBeforeReply ==
    /\ \A i \in BagToSet(handed_out) : i <= wallet_dat /\ CopiesIn(i, handed_out) <= 1
    /\ \A i \in SwapKeysIndices(wallet_last.sent) :
          i = wallet_dat /\ i > wallet_last.pre.wallet_dat
    /\ wallet_up => node_secrets.wallet_counter = wallet_dat

\* A SwapKeys reply was sent before a crash and another after the restart.
C4_Witness ==
    /\ Len(csk_log) = 2
    /\ csk_log[1].run < csk_log[2].run
    /\ csk_log[1].index # 0
    /\ csk_log[1].index < csk_log[2].index
    /\ BagCardinality(handed_out) >= 2

\* C6: walletd dispatches only Ctl-family messages on the Ctl lane; any other
\* (lane, family) pair is rejected with NotSupported(lane, text) with no
\* message sent and token, secrets, counter and wallet.dat unchanged.
C6_WalletLaneFamily ==
    wallet_last.bus # "" =>
        IF wallet_last.bus = "Ctl" /\ wallet_last.request.family = "Ctl"
        THEN wallet_last.result[1] # "NotSupported"
        ELSE /\ wallet_last.result
                  = NotSupported(wallet_last.bus, to_string(wallet_last.request))
             /\ wallet_last.sent = <<>>
             /\ WalletFrame
             /\ wallet_up

\* A CreateSwapKeys with the right token arrived on the Info lane and was
\* rejected.
C6_Witness ==
    /\ wallet_last.bus = "Info"
    /\ wallet_last.request.variant = "CreateSwapKeys"
    /\ wallet_last.request.token = wallet_token
    /\ wallet_last.result[1] = "NotSupported"
    /\ wallet_last.sent = <<>>
    /\ node_secrets.wallet_counter > 0

\* The sub-handler each (lane, family) pair is meant to select; "none" for a
\* pair that is to be rejected.
SubHandlerOf(bus, family) ==
    CASE bus = "Ctl" /\ family = "Ctl" -> "handle_ctl"
      [] bus = "Info" /\ family = "Info" -> "handle_info"
      [] bus = "Sync" /\ family = "Sync" -> "handle_sync"
      [] bus = "Bridge" /\ family = "Sync" -> "handle_bridge"
      [] OTHER -> "none"

\* C5: syncerd runs a sub-handler only for the pairs (Ctl, Ctl), (Info, Info),
\* (Sync, Sync) and (Bridge, Sync); for every other (lane, family) pair no
\* sub-handler runs, the result is NotSupported(lane, message text), the task
\* set is unchanged, nothing is pushed on tx and nothing is sent on the bus;
\* Info(GetInfo) on the Ctl lane yields NotSupported(Ctl, "get_info()").
C5_SyncerLaneFamily ==
    syncer_last.bus # "" =>
        /\ syncer_last.handler
              = SubHandlerOf(syncer_last.bus, syncer_last.request.family)
        /\ syncer_last.handler = "none" =>
              /\ syncer_last.result[1] = "NotSupported"
              /\ syncer_last.result[2] = syncer_last.bus
              /\ syncer_last.result[3] = to_string(syncer_last.request)
              /\ tasks = syncer_last.pre.tasks
              /\ syncer_last.forwarded = <<>>
              /\ syncer_last.sent = <<>>
              /\ syncer_up
        /\ (syncer_last.bus = "Ctl" /\ syncer_last.request.variant = "GetInfo") =>
              syncer_last.result = <<"NotSupported", "Ctl", "get_info()">>

\* Info(GetInfo) arrived on the Ctl lane while tasks were outstanding and was
\* rejected.
C5_Witness ==
    /\ syncer_last.bus = "Ctl"
    /\ syncer_last.request.variant = "GetInfo"
    /\ syncer_last.result = <<"NotSupported", "Ctl", "get_info()">>
    /\ syncer_last.handler = "none"
    /\ tasks # EmptyBag
    /\ tasks = syncer_last.pre.tasks

\* syncerd has just handled a bridge event on the Bridge lane.
BridgeEventHandled ==
    syncer_last.bus = "Bridge" /\ syncer_last.request.variant = "BridgeEvent"

\* C7: handling a BridgeEvent on the Bridge lane makes exactly one send_to
\* call: a Sync(Event) carrying that event, on the Sync lane, from the syncer's
\* own identity to the source recorded in the bridge event; nothing else is
\* sent, nothing is pushed on tx and the task set is unchanged.
C7_BridgeEventForwarded ==
    BridgeEventHandled =>
        /\ Len(syncer_last.sent) = 1
        /\ syncer_last.sent[1].bus = "Sync"
        /\ syncer_last.sent[1].src = SyncerIdentity
        /\ syncer_last.sent[1].dst = syncer_last.request.source
        /\ syncer_last.sent[1].msg =
              [family |-> "Sync", variant |-> "Event",
               event |-> syncer_last.request.event]
        /\ syncer_last.forwarded = <<>>
        /\ tasks = syncer_last.pre.tasks

\* A bridge event recorded for Swap42 was re-emitted and delivered while tasks
\* were outstanding.
C7_Witness ==
    /\ BridgeEventHandled
    /\ syncer_last.request.source = "Swap42"
    /\ syncer_last.result = Ok
    /\ Len(syncer_last.sent) = 1
    /\ syncer_last.sent[1].dst = "Swap42"
    /\ syncer_last.sent[1].delivered
    /\ tasks # EmptyBag

\* The Sync(Event) messages among the send_to calls of the last handler.
EventsSent ==
    {syncer_last.sent[i] :
        i \in {j \in 1..Len(syncer_last.sent) :
                  syncer_last.sent[j].msg.variant = "Event"}}

\* C8: every Sync(Event) syncerd sends goes to a service that registered a
\* task this event belongs to, and that task is in the task set.
C8_Isolation ==
    \A m \in EventsSent :
        \E t \in BagToSet(tasks) :
            /\ t.source = m.dst
            /\ EventFor(t.task) = m.msg.event

\* An event of a task only Swap42 registered was sent to Swap42 while
\* Farcasterd had another task outstanding.
C8_Witness ==
    \E m \in EventsSent :
        /\ m.dst = "Swap42"
        /\ \E t \in BagToSet(tasks) : t.source = "Farcasterd"
        /\ ~\E t \in BagToSet(tasks) :
              t.source = "Farcasterd" /\ EventFor(t.task) = m.msg.event

\* C9: the task set holds exactly one entry for every (task, source) pair that
\* was submitted, however often it was submitted; pairs that differ in the
\* source alone are distinct entries.
C9_TaskSetSemantics ==
    /\ \A p \in BagToSet(submitted) : CopiesIn(p, tasks) = 1
    /\ \A p \in BagToSet(tasks) : BagIn(p, submitted)
    /\ \A task \in Tasks, s1, s2 \in Sources :
          (s1 # s2 /\ BagIn(SyncerdTask(task, s1), submitted)
                   /\ BagIn(SyncerdTask(task, s2), submitted)) =>
              /\ CopiesIn(SyncerdTask(task, s1), tasks) = 1
              /\ CopiesIn(SyncerdTask(task, s2), tasks) = 1
              /\ BagCardinality(tasks) >= 2

\* One task was submitted twice by Swap42 and once by Farcasterd: two entries.
C9_Witness ==
    \E task \in Tasks :
        /\ CopiesIn(SyncerdTask(task, "Swap42"), submitted) = 2
        /\ CopiesIn(SyncerdTask(task, "Farcasterd"), submitted) = 1
        /\ BagCardinality(tasks) = 2

\* C10: handling a Task equal to one already in the task set from the same
\* source changes nothing: the set is as before and nothing is pushed on tx.
C10_DuplicateIsNoOp ==
    (/\ syncer_last.bus = "Sync"
     /\ syncer_last.request.variant = "Task"
     /\ BagIn(SyncerdTask(syncer_last.request.task, syncer_last.source),
              syncer_last.pre.tasks)) =>
        /\ tasks = syncer_last.pre.tasks
        /\ syncer_last.forwarded = <<>>

\* ------------------------------------------------------- claims C11 .. C20
\* syncerd has just been handed a bus error on the connection to a service.
SyncerErrHandled ==
    syncer_last.bus = "" /\ syncer_last.request.variant = "esb::Error"

\* C11: once handle_err has run for the dropped connection of a source, no
\* task of that source is left in the task set.
C11_SourceDeathCancelsTasks ==
    SyncerErrHandled =>
        \A t \in BagToSet(tasks) : t.source # syncer_last.source

\* C12: a service that has handled Terminate from Farcasterd on the Ctl lane
\* has exited and handles nothing more.
C12_TerminateExits ==
    /\ (/\ syncer_last.bus = "Ctl"
        /\ syncer_last.request.variant = "Terminate"
        /\ syncer_last.source = "Farcasterd") => ~syncer_up
    /\ (/\ wallet_last.bus = "Ctl"
        /\ wallet_last.request.variant = "Terminate"
        /\ wallet_last.source = "Farcasterd") => ~wallet_up

\* syncerd has just run a sub-handler on a request that sub-handler has no
\* arm for (the catch-all arm ran).
SyncerUnserved ==
    /\ syncer_last.bus # ""
    /\ syncer_last.handler # "none"
    /\ CASE syncer_last.bus = "Ctl" ->
               ~(\/ syncer_last.request.variant = "Hello"
                 \/ /\ syncer_last.request.variant = "Terminate"
                    /\ syncer_last.source = "Farcasterd")
         [] syncer_last.bus = "Info" ->
               syncer_last.request.variant \notin {"GetInfo", "ListTasks"}
         [] syncer_last.bus = "Sync" -> syncer_last.request.variant # "Task"
         [] OTHER -> syncer_last.request.variant # "BridgeEvent"

\* walletd has just run handle_ctl on a request it has no arm for.
WalletUnserved ==
    /\ wallet_last.bus = "Ctl"
    /\ wallet_last.request.family = "Ctl"
    /\ wallet_last.request.variant \notin {"Hello", "CreateSwapKeys", "GetKeys"}

\* C14 (as stated): a request of the lane's family that the handler has no arm
\* for returns success, changes no state and sends nothing, on every lane of
\* syncerd and walletd.
C14_Original ==
    /\ SyncerUnserved =>
          /\ syncer_last.result = Ok
          /\ tasks = syncer_last.pre.tasks
          /\ syncer_last.sent = <<>>
          /\ syncer_last.forwarded = <<>>
    /\ WalletUnserved =>
          /\ wallet_last.result = Ok
          /\ WalletFrame
          /\ wallet_last.sent = <<>>

\* C14 (amended): such a request changes no state, sends nothing and leaves
\* the service running; the handler returns success, except syncerd's
\* handle_ctl, which returns NotSupported(Ctl, message text), an error the
\* controller logs and handle_err swallows.
C14_UnservedDropped ==
    /\ SyncerUnserved =>
          /\ syncer_last.result =
                IF syncer_last.bus = "Ctl"
                THEN NotSupported("Ctl", to_string(syncer_last.request))
                ELSE Ok
          /\ tasks = syncer_last.pre.tasks
          /\ syncer_last.sent = <<>>
          /\ syncer_last.forwarded = <<>>
          /\ syncer_up
    /\ WalletUnserved =>
          /\ wallet_last.result = Ok
          /\ WalletFrame
          /\ wallet_last.sent = <<>>
          /\ wallet_up

\* syncerd's handle_ctl met Progress while tasks were outstanding: rejected
\* with NotSupported, nothing changed, still running.
C14_Witness ==
    /\ SyncerUnserved
    /\ syncer_last.bus = "Ctl"
    /\ syncer_last.request.variant = "Progress"
    /\ syncer_last.result = <<"NotSupported", "Ctl", "progress(p)">>
    /\ tasks # EmptyBag
    /\ tasks = syncer_last.pre.tasks
    /\ syncer_up

\* walletd has just been handed a bus error.
WalletErrHandled ==
    wallet_last.bus = "" /\ wallet_last.request.variant = "esb::Error"

\* C15: handle_err of syncerd and of walletd returns success on a bus error,
\* leaves task set, token, secrets and counter as they were and sends nothing;
\* the service keeps running, also after a handler error passed to handle_err.
C15_ErrorsSwallowed ==
    /\ SyncerErrHandled =>
          /\ syncer_last.result = Ok
          /\ tasks = syncer_last.pre.tasks
          /\ syncer_last.sent = <<>>
          /\ syncer_last.forwarded = <<>>
          /\ syncer_up
    /\ WalletErrHandled =>
          /\ wallet_last.result = Ok
          /\ WalletFrame
          /\ wallet_last.sent = <<>>
          /\ wallet_up
    /\ (syncer_last.bus # "" /\ syncer_last.result # Ok) => syncer_up
    /\ (wallet_last.bus # "" /\ wallet_last.result # Ok) => wallet_up

\* A bus error on the connection to Swap42 was swallowed while tasks were
\* outstanding.
C15_Witness ==
    /\ SyncerErrHandled
    /\ syncer_last.source = "Swap42"
    /\ syncer_last.result = Ok
    /\ tasks # EmptyBag
    /\ syncer_up

GetKeysHandled ==
    /\ GatedHandled
    /\ wallet_last.request.variant = "GetKeys"
    /\ TokenMatched

\* C18: a GetKeys request with the matching token hands exactly one message to
\* the bus, a Keys reply from Wallet to Farcasterd on the Ctl lane carrying the
\* node's peer secret key and node id, and leaves wallet_counter, the stored
\* token and wallet.dat as they were, whatever was handled before it.
C18_GetKeysFrame ==
    GetKeysHandled =>
        /\ Len(wallet_last.sent) = 1
        /\ wallet_last.sent[1].bus = "Ctl"
        /\ wallet_last.sent[1].src = "Wallet"
        /\ wallet_last.sent[1].dst = "Farcasterd"
        /\ wallet_last.sent[1].msg.variant = "Keys"
        /\ wallet_last.sent[1].msg.peerd_secret_key = node_secrets.peerd_secret_key
        /\ wallet_last.sent[1].msg.node_id = node_id(node_secrets)
        /\ wallet_last.result \in {Ok, TransportError}
        /\ WalletFrame

\* GetKeys was answered after two CreateSwapKeys had advanced the counter.
C18_Witness ==
    /\ GetKeysHandled
    /\ wallet_last.result = Ok
    /\ node_secrets.wallet_counter >= 2
    /\ Len(csk_log) = 2

\* The Runtime has just handled the head of the bridge and re-emitted it.
BridgeHeadReemitted ==
    /\ bridge # <<>>
    /\ bridge' = Tail(bridge)
    /\ syncer_last'.bus = "Bridge"
    /\ syncer_last'.request.variant = "BridgeEvent"
    /\ syncer_last'.request.event = Head(bridge).event
    /\ Len(syncer_last'.sent) = 1
    /\ syncer_last'.sent[1].bus = "Sync"
    /\ syncer_last'.sent[1].dst = Head(bridge).source
    /\ syncer_last'.sent[1].msg.event = Head(bridge).event

\* The Runtime has just handled a Task and put it at the tail of the channel.
TaskEnqueuedLast ==
    /\ syncer_last'.handler = "handle_sync"
    /\ syncer_last'.request.variant = "Task"
    /\ tx' = Append(tx, SyncerdTask(syncer_last'.request.task, syncer_last'.source))

\* C16: the channel to the Synclet and the bridge are first-in first-out
\* through the Runtime. The channel changes only by the Runtime appending the
\* task it has just handled, by the Synclet taking the head, or by the
\* Receiver being dropped; the bridge changes only by the Synclet appending an
\* event or by the Runtime handling the head and sending that event on the
\* Sync lane to the source written with it. Tasks of one source are therefore
\* enqueued in handling order and its events re-emitted in writing order,
\* whatever other sources do in between.
C16_OrderPreserved ==
    [][ /\ tx' # tx =>
              \/ TaskEnqueuedLast
              \/ tx # <<>> /\ tx' = Tail(tx) /\ Head(tx) \in synclet_tasks'
              \/ ~rx_alive' /\ tx' = <<>>
        /\ bridge' # bridge =>
              \/ Len(bridge') = Len(bridge) + 1 /\ SubSeq(bridge', 1, Len(bridge)) = bridge
              \/ BridgeHeadReemitted
      ]_vars

\* The Runtime has just re-emitted the first of two events written for
\* different sources; the second still waits in the bridge and a further task
\* waits in the channel.
C16_Witness ==
    /\ syncer_last.bus = "Bridge"
    /\ syncer_last.request.variant = "BridgeEvent"
    /\ syncer_last.result = Ok
    /\ bridge # <<>>
    /\ bridge[1].source # syncer_last.sent[1].dst
    /\ tx # <<>>

\* The Runtime has just handled a Task submitted on the Sync lane.
TaskHandled ==
    /\ syncer_last.handler = "handle_sync"
    /\ syncer_last.request.variant = "Task"

\* C17: whenever the Runtime waits for a message, every Ctl, Info and Sync
\* message handed to it can be handled at once, however many tasks the Synclet
\* has left in the channel; a handled Task returned Ok with the task already
\* at the tail of the channel, with no step of the Synclet in between.
C17_RuntimeResponsive ==
    /\ (syncer_up /\ syncer_last.bus = "") =>
          \A bus \in {"Ctl", "Info", "Sync"}, source \in Sources, request \in SyncerMsgs :
              ENABLED (SyncerHandle(bus, source, request, TRUE) /\ UNCHANGED bridge)
    /\ TaskHandled =>
          /\ syncer_last.result = Ok
          /\ syncer_last.pre.rx_alive =>
                /\ tx # <<>>
                /\ tx[Len(tx)] = SyncerdTask(syncer_last.request.task, syncer_last.source)

\* A third Task was handled while the Synclet had taken none of the earlier ones.
C17_Witness ==
    /\ TaskHandled
    /\ syncer_last.result = Ok
    /\ rx_alive
    /\ synclet_tasks = {}
    /\ Len(tx) >= 3

Terminal(response) == response.variant \in {"Success", "Failure"}

\* The response the i-th converted Result must give.
Converted(i) ==
    LET r == cli.results[i]
        out == cli.responses[i]
    IN  IF r.res.ok
        THEN IF r.by = "progress"
             THEN out = [variant |-> "Progress", info |-> r.res.val]
             ELSE /\ out.variant = "Success"
                  /\ out.details = IF r.res.val = "()" THEN <<"None">>
                                   ELSE <<"Some", r.res.val>>
        ELSE out = [variant |-> "Failure", failure |-> r.res.err]

\* C19: the responses to a CLI request are Progress messages followed by at
\* most one Success or Failure, which is the last response and ends the
\* request; every converted Result gave exactly one response, Ok giving
\* Progress (into_progress_or_failure) or Success (into_success_or_failure)
\* and Err giving Failure.
C19_ResponseStream ==
    /\ \A i \in 1..Len(cli.responses) :
          Terminal(cli.responses[i]) => (i = Len(cli.responses) /\ cli.pc = "done")
    /\ \A i \in 1..Len(cli.responses) :
          cli.responses[i].variant \in {"Progress", "Success", "Failure"}
    /\ Len(cli.responses) = Len(cli.results)
    /\ \A i \in 1..Len(cli.results) : Converted(i)
    /\ \A res \in StringResults :
          into_progress_or_failure(res).variant = IF res.ok THEN "Progress" ELSE "Failure"
    /\ \A res \in StringResults \cup UnitResults :
          into_success_or_failure(res).variant = IF res.ok THEN "Success" ELSE "Failure"

\* A request ended with a Failure from into_progress_or_failure after a
\* Progress response.
C19_Witness ==
    /\ cli.pc = "done"
    /\ Len(cli.responses) = 2
    /\ cli.responses[1].variant = "Progress"
    /\ cli.responses[2].variant = "Failure"
    /\ cli.results[2].by = "progress"

\* C20: the bytes of a checkpoint are the wallet body segment followed by the
\* Monero address consensus bytes, the length returned is their length, and
\* decoding them gives back the checkpoint value.
C20_CheckpointRoundTrip ==
    /\ checkpoint.pc \in {"encoded", "decoded"} =>
          /\ checkpoint.encoded.ok
          /\ checkpoint.encoded.bytes =
                Wallet_strict_encode(checkpoint.value.wallet)
                    \o consensus_encode(checkpoint.value.xmr_addr)
          /\ checkpoint.encoded.len = Len(checkpoint.encoded.bytes)
    /\ checkpoint.pc = "decoded" =>
          /\ checkpoint.decoded.ok
          /\ checkpoint.decoded.val = checkpoint.value

\* A checkpoint whose wallet body holds the address magic byte and whose
\* address is integrated was written and read back.
C20_Witness ==
    /\ checkpoint.pc = "decoded"
    /\ checkpoint.decoded.ok
    /\ checkpoint.value.xmr_addr.kind = "integrated"
    /\ Len(checkpoint.value.wallet.body) = 2
    /\ checkpoint.value.wallet.body[1] = 18

\* ---------------------------------------------------------------- C21..C26
\* The Runtime has just handled GetInfo or ListTasks on the Info lane.
InfoQueryHandled ==
    /\ syncer_last.handler = "handle_info"
    /\ syncer_last.request \in InfoQueries

\* C21: GetInfo and ListTasks hand exactly one message to the bus, an Info
\* reply (SyncerInfo, respectively TaskList) to the requesting source whose
\* task list is the outstanding-task set at the moment of handling; the
\* outstanding-task set is as it was and nothing was put on the channel to the
\* Synclet.
C21_InfoReadOnly ==
    InfoQueryHandled =>
        /\ Len(syncer_last.sent) = 1
        /\ syncer_last.sent[1].bus = "Info"
        /\ syncer_last.sent[1].src = SyncerIdentity
        /\ syncer_last.sent[1].dst = syncer_last.source
        /\ syncer_last.sent[1].msg.variant =
              (IF syncer_last.request.variant = "GetInfo" THEN "SyncerInfo" ELSE "TaskList")
        /\ syncer_last.sent[1].msg.tasks = BagToSet(tasks)
        /\ tasks = syncer_last.pre.tasks
        /\ syncer_last.forwarded = <<>>
        /\ syncer_last.result \in {Ok, TransportError}

\* ListTasks was answered with two outstanding tasks while one of them still
\* waited in the channel.
C21_Witness ==
    /\ InfoQueryHandled
    /\ syncer_last.request.variant = "ListTasks"
    /\ syncer_last.result = Ok
    /\ Cardinality(syncer_last.sent[1].msg.tasks) >= 2
    /\ tx # <<>>
    /\ synclet_tasks # {}

\* This step is the Runtime handling a Task::Abort submitted on the Sync lane.
AbortStep ==
    /\ syncer_last.bus = ""
    /\ syncer_last'.handler = "handle_sync"
    /\ syncer_last'.request.variant = "Task"
    /\ syncer_last'.request.task.kind = "Abort"

\* C22: no step takes an entry out of the outstanding-task set; handling a
\* Task::Abort leaves the Abort itself in the set, puts it on the channel to
\* the Synclet when the Receiver is there, and the task it names stays.
C22_TaskSetOnlyGrows ==
    [][ /\ \A p \in BagToSet(tasks) : BagIn(p, tasks')
        /\ AbortStep =>
              LET t == SyncerdTask(syncer_last'.request.task, syncer_last'.source)
              IN  /\ BagIn(t, tasks')
                  /\ rx_alive => tx' = Append(tx, t)
                  /\ \A p \in BagToSet(tasks) :
                        p.task.id = t.task.task_id => BagIn(p, tasks')
      ]_vars

\* Swap42's Abort of its task 1 was handled: both are outstanding.
C22_Witness ==
    /\ syncer_last.handler = "handle_sync"
    /\ syncer_last.request.variant = "Task"
    /\ syncer_last.request.task.kind = "Abort"
    /\ syncer_last.source = "Swap42"
    /\ BagIn(SyncerdTask([kind |-> "WatchHeight", id |-> 1], "Swap42"), syncer_last.pre.tasks)
    /\ BagIn(SyncerdTask([kind |-> "WatchHeight", id |-> 1], "Swap42"), tasks)
    /\ BagIn(SyncerdTask(syncer_last.request.task, "Swap42"), tasks)

\* The Runtime has just handled Terminate on the Ctl lane.
TerminateHandled ==
    /\ syncer_last.handler = "handle_ctl"
    /\ syncer_last.request.variant = "Terminate"

\* C23: syncerd is down only after a Terminate from Farcasterd on the Ctl
\* lane; a Terminate on the Ctl lane from any other service returns
\* NotSupported(Ctl, ..), sends and forwards nothing, and leaves syncerd
\* running with its task set as it was.
C23_TerminateOnlyFromFarcasterd ==
    /\ ~syncer_up =>
          /\ TerminateHandled
          /\ syncer_last.bus = "Ctl"
          /\ syncer_last.source = "Farcasterd"
    /\ (TerminateHandled /\ syncer_last.source = "Farcasterd") => ~syncer_up
    /\ (TerminateHandled /\ syncer_last.source # "Farcasterd") =>
          /\ syncer_up
          /\ syncer_last.result = NotSupported("Ctl", "terminate()")
          /\ tasks = syncer_last.pre.tasks
          /\ syncer_last.sent = <<>>
          /\ syncer_last.forwarded = <<>>

\* Wallet's Terminate was refused while two tasks were outstanding.
C23_Witness ==
    /\ TerminateHandled
    /\ syncer_last.source = "Wallet"
    /\ syncer_up
    /\ BagCardinality(tasks) >= 2

\* C24: every message walletd hands to the bus is a SwapKeys or Keys reply
\* from Wallet to Farcasterd on the Ctl lane, whichever service the request
\* came from; a request from another service gets no message at all.
C24_RepliesToFarcasterd ==
    \A i \in 1..Len(wallet_last.sent) :
        /\ wallet_last.sent[i].msg.variant \in {"SwapKeys", "Keys"}
        /\ wallet_last.sent[i].bus = "Ctl"
        /\ wallet_last.sent[i].src = "Wallet"
        /\ wallet_last.sent[i].dst = "Farcasterd"
        /\ wallet_last.source # "Farcasterd" =>
              wallet_last.sent[i].dst # wallet_last.source

\* A swap service presented the stored token in GetKeys: the keys went to
\* Farcasterd.
C24_Witness ==
    /\ GetKeysHandled
    /\ wallet_last.source = "Swap42"
    /\ Len(wallet_last.sent) = 1
    /\ wallet_last.sent[1].delivered
    /\ wallet_last.sent[1].dst = "Farcasterd"

\* C25: a CreateSwapKeys that passes the token check leaves wallet_counter one
\* higher whatever its result: on a failed key derivation nothing is sent, on
\* a failed send the undelivered reply carries the new index, and in both
\* cases the handler returns the error with the counter advanced. Every index
\* ever put in a reply is at most the counter and was put in one reply only,
\* so a consumed index is not used again.
C25_CounterNeverRolledBack ==
    /\ CskHandled =>
          /\ node_secrets.wallet_counter = wallet_last.pre.node_secrets.wallet_counter + 1
          /\ wallet_last.result \in {Ok, CryptoError, TransportError}
          /\ wallet_last.result = CryptoError => wallet_last.sent = <<>>
          /\ wallet_last.result # CryptoError =>
                /\ Len(wallet_last.sent) = 1
                /\ wallet_last.sent[1].msg.key_manager.index = node_secrets.wallet_counter
                /\ wallet_last.sent[1].delivered <=> (wallet_last.result = Ok)
    /\ \A i \in BagToSet(handed_out) :
          /\ i <= node_secrets.wallet_counter
          /\ CopiesIn(i, handed_out) = 1

\* After a CreateSwapKeys whose key derivation failed, the next one in the
\* same run replied with the index after the skipped one.
C25_Witness ==
    /\ CskHandled
    /\ wallet_last.result = Ok
    /\ Len(csk_log) = 2
    /\ csk_log[1].run = csk_log[2].run
    /\ ~csk_log[1].ok
    /\ csk_log[1].index = 0
    /\ csk_log[2].index = node_secrets.wallet_counter
    /\ node_secrets.wallet_counter = 2
    /\ handed_out = SetToBag({2})

\* C26: a handled Task is in the outstanding-task set and the handler returned
\* Ok, whether or not the send on the channel succeeded; with the Synclet's
\* Receiver gone nothing reached the channel or the Synclet, syncerd keeps
\* running, and the task is in the set all the same.
C26_TaskKeptOnSendFailure ==
    TaskHandled =>
        LET t == SyncerdTask(syncer_last.request.task, syncer_last.source)
        IN  /\ syncer_last.result = Ok
            /\ syncer_up
            /\ BagIn(t, tasks)
            /\ syncer_last.pre.rx_alive => syncer_last.forwarded = <<t>>
            /\ ~syncer_last.pre.rx_alive =>
                  /\ syncer_last.forwarded = <<>>
                  /\ tx = <<>>
                  /\ t \notin synclet_tasks

\* A task not yet outstanding was handled after the Synclet had stopped.
C26_Witness ==
    /\ TaskHandled
    /\ ~rx_alive
    /\ syncer_last.result = Ok
    /\ ~BagIn(SyncerdTask(syncer_last.request.task, syncer_last.source), syncer_last.pre.tasks)
    /\ BagIn(SyncerdTask(syncer_last.request.task, syncer_last.source), tasks)
    /\ tx = <<>>

====
